---------------------------- MODULE Spec2Model ----------------------------
(***************************************************************************)
(* Resume-to-job matching: the scoring helpers shared by match_stage4.py   *)
(* and app_matches_stearmlit.py, the scoring loop and ranking of both      *)
(* programs, and the dashboard's skill-gap and course sections.            *)
(*                                                                         *)
(* Numbers.  Python floats are modelled in fixed point.  The four signals  *)
(* (semantic similarity, keyword overlap, recency, popularity) are in      *)
(* thousandths (One = 1.0); a final score is in units of 1e-5 (ScoreOne =  *)
(* 1.0), so that the weights 0.55, 0.25, 0.10, 0.10 are the integers 55,   *)
(* 25, 10, 10 and the weighted sum is exact.  Timestamps are epoch         *)
(* seconds.  An optional value (dict.get without the key, None) is a       *)
(* sequence of length 0 or 1: None == << >>, Some(x) == << x >>.           *)
(***************************************************************************)
EXTENDS Integers, Sequences, FiniteSets, TLC

VARIABLES
    now,             \* the process clock, what time.time() returns
    call,            \* helper under call: [fn, args]
    ret,             \* what that call returned, under the helper's name
    program,         \* "stage4" (match_stage4.py) or "app" (the dashboard)
    resume,          \* option: the resume document read from resumes_meta
    jobs,            \* list(jobs_col.find())
    pc,              \* position of the program in its handler
    idx,             \* number of jobs the scoring loop has consumed
    matches,         \* the matches list built by the loop
    all_job_skills,  \* dashboard: skills accumulated by the loop
    matches_sorted,  \* option: the ranked, truncated list
    missing_counts,  \* option: dashboard, the skill-gap series
    rec_rows,        \* option: dashboard, course_recommendations' rows
    ui,              \* messages shown: print / st.warning / st.error / st.info ...
    outputs          \* ranked lists shown so far, one per invocation

vars == << now, call, ret, program, resume, jobs, pc, idx, matches,
           all_job_skills, matches_sorted, missing_counts, rec_rows, ui, outputs >>

pipeVars == << program, resume, jobs, pc, idx, matches, all_job_skills,
               matches_sorted, missing_counts, rec_rows, ui, outputs >>

-----------------------------------------------------------------------------
(* Bounds of the model *)

MaxDim == 3          \* longest embedding drawn for a helper call
MaxJobs == 21        \* longest job collection
MaxTicks == 2        \* days the clock may advance
MaxGapLen == 4       \* longest skill list drawn for a skill-gap call
MaxRuns == 2         \* invocations of a program on the same data
MaxCourseLen == 3    \* longest skill list drawn for a course_recommendations call

-----------------------------------------------------------------------------
(* Units and generic helpers *)

One == 10^3
ScoreOne == 100 * One

None == << >>
Some(x) == << x >>
IsNone(o) == o = << >>
Val(o) == o[1]

Min(a, b) == IF a <= b THEN a ELSE b
Max(a, b) == IF a >= b THEN a ELSE b
Abs(x) == IF x < 0 THEN -x ELSE x

\* a[:n]
Take(s, n) == SubSeq(s, 1, Min(n, Len(s)))

ToSet(s) == { s[i] : i \in DOMAIN s }

\* float division of integers, kept to the model's precision, rounded toward zero
Quot(n, d) == IF n >= 0 THEN n \div d ELSE -((-n) \div d)

RECURSIVE SqrtSearch(_, _, _)
SqrtSearch(n, lo, hi) ==
    IF lo >= hi THEN lo
    ELSE LET mid == (lo + hi + 1) \div 2
         IN  IF mid * mid <= n THEN SqrtSearch(n, mid, hi)
                               ELSE SqrtSearch(n, lo, mid - 1)

\* floor of the square root, n < 2^31
ISqrt(n) == SqrtSearch(n, 0, 46340)

\* round(x, ndigits) / format(x, ".nf"): x to the nearest multiple of q,
\* a tie going to the even multiple; the result counts multiples of q
RoundTo(x, q) ==
    LET lower == x \div q
        rem == x - lower * q
    IN  IF 2 * rem > q THEN lower + 1
        ELSE IF 2 * rem < q THEN lower
        ELSE IF lower % 2 = 0 THEN lower ELSE lower + 1

-----------------------------------------------------------------------------
(* Skills.  Python compares the skill strings by code point; Alphabet      *)
(* lists the model's skills in that order.                                 *)

Alphabet == << "aws", "docker", "java", "python", "spark", "sql", "tableau" >>

Vocabulary == ToSet(Alphabet)

AlphaRank(s) == CHOOSE i \in DOMAIN Alphabet : Alphabet[i] = s

\* sorted(S) for a set of skills
sorted(S) == SelectSeq(Alphabet, LAMBDA s : s \in S)

\* set(xs or []) for an optional list
SetOf(xs) == IF IsNone(xs) THEN {} ELSE ToSet(Val(xs))

-----------------------------------------------------------------------------
(* cosine_sim *)

RECURSIVE SumSq(_)
SumSq(a) == IF a = << >> THEN 0 ELSE a[1] * a[1] + SumSq(Tail(a))

RECURSIVE DotSame(_, _)
DotSame(a, b) == IF a = << >> THEN 0 ELSE a[1] * b[1] + DotSame(Tail(a), Tail(b))

\* np.linalg.norm(a) * np.linalg.norm(b), in thousandths
denom(a, b) == ISqrt(SumSq(a) * SumSq(b) * One * One)

\* lines 68-71 / 24-27: the quotient on arrays as they are; np.dot raises
\* ValueError when the two shapes differ
cosine_core(a, b) ==
    IF Len(a) # Len(b) THEN [ok |-> FALSE, val |-> 0]
    ELSE IF denom(a, b) = 0 THEN [ok |-> TRUE, val |-> 0]
    ELSE [ok |-> TRUE, val |-> Quot(DotSame(a, b) * One * One, denom(a, b))]

cosine_sim_untruncated(a, b) == cosine_core(a, b)

\* the dashboard's cosine_sim: always slices both to min_len
cosine_sim_app(a, b) ==
    LET min_len == Min(Len(a), Len(b))
    IN  cosine_core(Take(a, min_len), Take(b, min_len))

\* match_stage4's cosine_sim: slices only when the shapes differ
cosine_sim_stage4(a, b) ==
    IF Len(a) # Len(b)
    THEN LET min_len == Min(Len(a), Len(b))
         IN  cosine_core(Take(a, min_len), Take(b, min_len))
    ELSE cosine_core(a, b)

-----------------------------------------------------------------------------
(* keyword_overlap *)

keyword_overlap_by_job(resume_skills, job_skills) ==
    LET rs == SetOf(resume_skills)
        js == SetOf(job_skills)
    IN  IF rs = {} \/ js = {} THEN 0
        ELSE (Cardinality(rs \cap js) * One) \div Cardinality(js)

keyword_overlap(resume_skills, job_skills) ==
    LET rs == SetOf(resume_skills)
        js == SetOf(job_skills)
    IN  IF rs = {} \/ js = {} THEN 0
        ELSE (Cardinality(rs \cap js) * One) \div Cardinality(rs \cup js)

-----------------------------------------------------------------------------
(* recency_weight *)

SECONDS_PER_DAY == 86400
DECAY_DAYS == 30
NEUTRAL_RECENCY == 500

\* e^(d / DECAY_DAYS) in millionths, by its power series: term k is
\* term k-1 times d / (DECAY_DAYS * k)
RECURSIVE ExpSeries(_, _, _, _)
ExpSeries(d, k, term, acc) ==
    IF term = 0 THEN acc
    ELSE LET next == (term * d) \div (DECAY_DAYS * k)
         IN  ExpSeries(d, k + 1, next, acc + next)

\* math.exp(-days / 30.0) in thousandths, for days within one decay period
ExpNegUnit(days) ==
    LET e == ExpSeries(days, 1, One * One, One * One)
    IN  ((One * One * One) \div (e \div One)) \div One

\* math.exp(-days / 30.0) in thousandths: e^-(a+b) = e^-a * e^-b, one decay
\* period at a time
RECURSIVE ExpNeg(_)
ExpNeg(days) ==
    IF days > DECAY_DAYS
    THEN (ExpNeg(days - DECAY_DAYS) * ExpNegUnit(DECAY_DAYS)) \div One
    ELSE ExpNegUnit(days)

\* max(0, (time.time() - posted_ts) / 86400.0), whole days
ElapsedDays(posted_ts) == Max(0, Quot(now - posted_ts, SECONDS_PER_DAY))

\* "not posted_ts": None and the number 0 are both falsy
Falsy(posted_at) == IsNone(posted_at) \/ Val(posted_at) = 0

recency_weight(posted_at) ==
    IF Falsy(posted_at) THEN NEUTRAL_RECENCY
    ELSE ExpNeg(ElapsedDays(Val(posted_at)))

-----------------------------------------------------------------------------
(* final_score *)

W_SEM == 55
W_KW == 25
W_REC == 10
W_POP == 10
POP == 500

final_score_neg_recency(sem, kw, rec, pop) ==
    W_SEM * sem + W_KW * kw - W_REC * rec + W_POP * pop

final_score(sem, kw, rec, pop) ==
    W_SEM * sem + W_KW * kw + W_REC * rec + W_POP * pop

-----------------------------------------------------------------------------
(* explain_match: the text "Score: .. | Common: .. | Learn: .." as its     *)
(* three parts; score is the number printed by ":.2f", in hundredths        *)

MAX_LEARN == 5

explain_match_all_job_skills(resume_skills, job_skills, score) ==
    LET rs == SetOf(resume_skills)
        js == SetOf(job_skills)
    IN  [ score  |-> RoundTo(score, ScoreOne \div 100),
          common |-> sorted(rs \cap js),
          learn  |-> Take(sorted(js), MAX_LEARN) ]

explain_match(resume_skills, job_skills, score) ==
    LET rs == SetOf(resume_skills)
        js == SetOf(job_skills)
        common == sorted(rs \cap js)
        missing == sorted(js \ rs)
    IN  [ score  |-> RoundTo(score, ScoreOne \div 100),
          common |-> common,
          learn  |-> Take(missing, MAX_LEARN) ]

-----------------------------------------------------------------------------
(* course_recommendations *)

COURSE_MAP ==
    [ s \in {"python", "sql", "machine learning", "deep learning", "aws"} |->
        CASE s = "python" -> << "Coursera: Python for Everybody" >>
          [] s = "sql" -> << "Coursera: SQL for Data Science" >>
          [] s = "machine learning" -> << "Coursera: Machine Learning (Andrew Ng)" >>
          [] s = "deep learning" -> << "Coursera: Deep Learning Specialization" >>
          [] s = "aws" -> << "Coursera: AWS Fundamentals" >> ]

\* COURSE_MAP.get(skill, [])
CoursesOf(skill) == IF skill \in DOMAIN COURSE_MAP THEN COURSE_MAP[skill] ELSE << >>

RECURSIVE course_recommendations_newest_first(_)
course_recommendations_newest_first(missing_skills) ==
    IF missing_skills = << >> THEN << >>
    ELSE course_recommendations_newest_first(Tail(missing_skills))
         \o [ i \in DOMAIN CoursesOf(Head(missing_skills)) |->
                [ Skill |-> Head(missing_skills),
                  Course |-> CoursesOf(Head(missing_skills))[i] ] ]

RECURSIVE course_recommendations(_)
course_recommendations(missing_skills) ==
    IF missing_skills = << >> THEN << >>
    ELSE [ i \in DOMAIN CoursesOf(Head(missing_skills)) |->
             [ Skill |-> Head(missing_skills),
               Course |-> CoursesOf(Head(missing_skills))[i] ] ]
         \o course_recommendations(Tail(missing_skills))

-----------------------------------------------------------------------------
(* The skill-gap section.  A pandas Series is a sequence of <<key, count>>. *)

HEAT_MAP_ROWS == 20

CountOf(xs, k) == Cardinality({ i \in DOMAIN xs : xs[i] = k })

\* the keys of xs, each once, in order of first occurrence (the frequency table)
RECURSIVE FirstOccurrence(_)
FirstOccurrence(xs) ==
    IF xs = << >> THEN << >>
    ELSE LET front == FirstOccurrence(SubSeq(xs, 1, Len(xs) - 1))
             last == xs[Len(xs)]
         IN  IF last \in ToSet(front) THEN front ELSE Append(front, last)

\* every order of the keys K in which the counts never increase
RECURSIVE Descending(_, _)
Descending(xs, K) ==
    IF K = {} THEN { << >> }
    ELSE LET top == { k \in K : \A j \in K : CountOf(xs, k) >= CountOf(xs, j) }
         IN  UNION { { << << k, CountOf(xs, k) >> >> \o rest :
                         rest \in Descending(xs, K \ {k}) } : k \in top }

\* pd.Series(xs).value_counts(): sort_values(ascending=False) with the default
\* sort kind, which is not a stable sort: the order among equal counts is any
value_counts(xs) == Descending(xs, ToSet(xs))

\* lines 219-235: what the section shows, and the missing_counts series
SkillGap(job_skills, resume_skills) ==
    IF job_skills = << >>
    THEN { [ shown |-> "info: no job skills", missing_counts |-> None, chart |-> None ] }
    ELSE { LET resume_skill_set == ToSet(resume_skills)
               missing == SelectSeq(job_skill_counts,
                                    LAMBDA e : e[1] \notin resume_skill_set)
           IN  IF missing # << >>
               THEN [ shown |-> "chart", missing_counts |-> Some(missing),
                      chart |-> Some(Take(missing, HEAT_MAP_ROWS)) ]
               ELSE [ shown |-> "info: no missing skills",
                      missing_counts |-> Some(missing), chart |-> None ]
           : job_skill_counts \in value_counts(job_skills) }

-----------------------------------------------------------------------------
(* Ranking: sorted(matches, key=score, reverse=True)[:N] *)

TOP_N_STAGE4 == 10
TOP_N_APP == 20

\* x["score"] in match_stage4, x["Score"] in the dashboard
ScoreOf(m) == IF "score" \in DOMAIN m THEN m.score ELSE m.Score

\* m put after every entry whose score is not smaller
RECURSIVE InsertDesc(_, _)
InsertDesc(s, m) ==
    IF s = << >> THEN << m >>
    ELSE IF ScoreOf(s[1]) >= ScoreOf(m) THEN << s[1] >> \o InsertDesc(Tail(s), m)
    ELSE << m >> \o s

RECURSIVE InsertAsc(_, _)
InsertAsc(s, m) ==
    IF s = << >> THEN << m >>
    ELSE IF ScoreOf(s[1]) <= ScoreOf(m) THEN << s[1] >> \o InsertAsc(Tail(s), m)
    ELSE << m >> \o s

RECURSIVE sorted_ascending(_)
sorted_ascending(ms) ==
    IF ms = << >> THEN << >>
    ELSE InsertAsc(sorted_ascending(SubSeq(ms, 1, Len(ms) - 1)), ms[Len(ms)])

\* Python's sort is stable, and with reverse=True equal keys keep their order
RECURSIVE sorted_by_score(_)
sorted_by_score(ms) ==
    IF ms = << >> THEN << >>
    ELSE InsertDesc(sorted_by_score(SubSeq(ms, 1, Len(ms) - 1)), ms[Len(ms)])

rank(ms, top_n) == Take(sorted_by_score(ms), top_n)

-----------------------------------------------------------------------------
(* One pass of the scoring loop over one job *)

\* match_stage4 lines 70-83; sem is the value cosine_sim returned
Stage4Match(resume_doc, job, sem) ==
    LET kw == keyword_overlap(Some(resume_doc.skills), Some(job.required_skills))
        rec == recency_weight(job.posted_at)
        score == final_score(sem, kw, rec, POP)
    IN  [ title |-> job.title, score |-> score,
          semantic_similarity |-> sem, keyword_overlap |-> kw ]

\* dashboard lines 190-206
AppMatch(resume_doc, job, sem) ==
    LET kw == keyword_overlap(Some(resume_doc.skills), Some(job.required_skills))
        rec == recency_weight(job.posted_at)
        score == final_score(sem, kw, rec, POP)
        reason == explain_match(Some(resume_doc.skills), Some(job.required_skills), score)
    IN  [ Title |-> job.title, Score |-> RoundTo(score, ScoreOne \div One),
          SemanticSim |-> RoundTo(sem, 1), KeywordOverlap |-> RoundTo(kw, 1),
          Reason |-> reason ]

\* "not job_vec": a missing vector and an empty one are both skipped
NoVector(job) == IsNone(job.vector) \/ Val(job.vector) = << >>

-----------------------------------------------------------------------------
(* The data the programs read: the clock, one resume, the job collection   *)

Now0 == 19676 * SECONDS_PER_DAY

Days(n) == n * SECONDS_PER_DAY

\* documents of resumes_meta, as build_resume_stage2 writes them
Resumes ==
    { [ resume_id |-> "r1", skills |-> << "python", "sql" >>, vector |-> << 1, 0, 0 >> ],
      [ resume_id |-> "r2", skills |-> << >>, vector |-> << 0, 1, 1 >> ] }

\* documents of jobs, as build_jobs_stage3 writes them (k: which posting; i: its
\* place in the collection, kept as its title)
JobKind(k, i) ==
    CASE k = 1 -> [ title |-> i, vector |-> Some(<< 1, 0, 0 >>),
                    required_skills |-> << "aws", "python", "sql" >>,
                    posted_at |-> Some(Now0) ]
      [] k = 2 -> [ title |-> i, vector |-> Some(<< 0, 1, 0 >>),
                    required_skills |-> << "java" >>,
                    posted_at |-> Some(Now0 - Days(60)) ]
      [] k = 3 -> [ title |-> i, vector |-> None,
                    required_skills |-> << "aws", "docker" >>,
                    posted_at |-> None ]
      [] k = 4 -> [ title |-> i, vector |-> Some(<< >>),
                    required_skills |-> << "spark" >>,
                    posted_at |-> Some(Now0 - Days(30)) ]
      [] k = 5 -> [ title |-> i, vector |-> Some(<< 1, 1 >>),
                    required_skills |-> << >>,
                    posted_at |-> Some(0) ]
      [] k = 6 -> [ title |-> i, vector |-> Some(<< 1, 1, 0, 1 >>),
                    required_skills |-> << "python" >>,
                    posted_at |-> Some(Now0 + Days(10)) ]

\* the postings a collection repeats, in order
Patterns ==
    { << 1 >>, << 2 >>, << 3 >>, << 5 >>, << 1, 2 >>, << 3, 4 >>, << 6, 5, 1 >>,
      << 2, 1, 5, 6 >>, << 1, 3, 2, 4, 5, 6 >> }

JobsFrom(p, n) == [ i \in 1..n |-> JobKind(p[((i - 1) % Len(p)) + 1], i) ]

JobCollections(max) == { JobsFrom(p, n) : p \in Patterns, n \in 0..max }

NoCall == [ fn |-> "none", args |-> << >> ]

NoRet == [ none |-> << >> ]

InitLocals ==
    /\ pc = "idle"
    /\ idx = 0
    /\ matches = << >>
    /\ all_job_skills = << >>
    /\ matches_sorted = None
    /\ missing_counts = None
    /\ rec_rows = None
    /\ ui = << >>
    /\ outputs = << >>

Init ==
    /\ now = Now0
    /\ call = NoCall
    /\ ret = NoRet
    /\ program \in { "stage4", "app" }
    /\ resume \in { None } \cup { Some(r) : r \in Resumes }
    /\ jobs \in JobCollections(MaxJobs)
    /\ InitLocals

-----------------------------------------------------------------------------
(* The clock *)

Tick ==
    /\ now < Now0 + Days(MaxTicks)
    /\ now' = now + SECONDS_PER_DAY
    /\ UNCHANGED << call, ret, pipeVars >>

TickIdle == pc = "idle" /\ Tick

-----------------------------------------------------------------------------
(* The programs *)

Say(kind, text) == Append(ui, << kind, text >>)

\* matches = []
FreshMatches == << >>

\* match_stage4 lines 50-65; dashboard lines 155-180 (the button is pressed)
Start ==
    /\ pc = "idle"
    /\ IF IsNone(resume)
       THEN /\ ui' = IF program = "stage4"
                     THEN Say("print", "No resumes in resumes_meta")
                     ELSE Say("st.warning", "No processed resumes found")
            /\ pc' = IF program = "stage4" THEN "exit" ELSE "done"
            /\ UNCHANGED << matches, all_job_skills >>
       ELSE IF jobs = << >>
       THEN /\ ui' = IF program = "stage4"
                     THEN Say("print", "No jobs in jobs collection")
                     ELSE Say("st.error", "No jobs found in 'jobs'")
            /\ pc' = IF program = "stage4" THEN "exit" ELSE "done"
            /\ UNCHANGED << matches, all_job_skills >>
       ELSE /\ matches' = FreshMatches
            /\ all_job_skills' = << >>
            /\ pc' = "loop"
            /\ UNCHANGED ui
    /\ idx' = 0
    /\ UNCHANGED << now, call, ret, program, resume, jobs, matches_sorted,
                    missing_counts, rec_rows, outputs >>

\* one iteration of "for job in jobs": match_stage4 lines 66-83, dashboard 182-206
ScoreJob ==
    /\ pc = "loop"
    /\ idx < Len(jobs)
    /\ idx' = idx + 1
    /\ LET job == jobs[idx + 1]
           r == Val(resume)
       IN  IF NoVector(job)
           THEN UNCHANGED << pc, matches, all_job_skills >>
           ELSE LET sem == IF program = "stage4"
                           THEN cosine_sim_stage4(r.vector, Val(job.vector))
                           ELSE cosine_sim_app(r.vector, Val(job.vector))
                IN  /\ all_job_skills' =
                          IF program = "app" THEN all_job_skills \o job.required_skills
                                             ELSE all_job_skills
                    /\ IF sem.ok
                       THEN /\ matches' = Append(matches,
                                   IF program = "stage4" THEN Stage4Match(r, job, sem.val)
                                                         ELSE AppMatch(r, job, sem.val))
                            /\ UNCHANGED pc
                       ELSE /\ pc' = "exception"
                            /\ UNCHANGED matches
    /\ UNCHANGED << now, call, ret, program, resume, jobs, matches_sorted,
                    missing_counts, rec_rows, ui, outputs >>

\* after the loop: match_stage4 lines 85-93, dashboard lines 208-214
Rank ==
    /\ pc = "loop"
    /\ idx = Len(jobs)
    /\ IF program = "stage4"
       THEN /\ matches_sorted' = Some(rank(matches, TOP_N_STAGE4))
            /\ ui' = Say("print", "Top 10 matches:")
            /\ outputs' = Append(outputs, Val(matches_sorted'))
            /\ pc' = "exit"
       ELSE IF matches = << >>
       THEN /\ ui' = Say("st.warning", "No matches could be computed")
            /\ pc' = "done"
            /\ UNCHANGED << matches_sorted, outputs >>
       ELSE /\ matches_sorted' = Some(rank(matches, TOP_N_APP))
            /\ ui' = Say("st.dataframe", "Top 20 Job Matches")
            /\ outputs' = Append(outputs, Val(matches_sorted'))
            /\ pc' = "gap"
    /\ UNCHANGED << now, call, ret, program, resume, jobs, idx, matches,
                    all_job_skills, missing_counts, rec_rows >>

\* dashboard lines 216-235
Gap ==
    /\ pc = "gap"
    /\ \E g \in SkillGap(all_job_skills, Val(resume).skills) :
          /\ missing_counts' = g.missing_counts
          /\ ui' = Say("gap", g.shown)
    /\ pc' = "courses"
    /\ UNCHANGED << now, call, ret, program, resume, jobs, idx, matches,
                    all_job_skills, matches_sorted, rec_rows, outputs >>

\* dashboard lines 237-249
Courses ==
    /\ pc = "courses"
    /\ IF all_job_skills # << >>
       THEN LET resume_skill_set == ToSet(Val(resume).skills)
                missing_skills == sorted(ToSet(all_job_skills) \ resume_skill_set)
                rows == course_recommendations(missing_skills)
            IN  /\ rec_rows' = Some(rows)
                /\ ui' = IF rows # << >>
                         THEN Say("courses", "table")
                         ELSE Say("courses", "info: no course recommendations")
       ELSE /\ ui' = Say("courses", "info: no skills found in jobs")
            /\ UNCHANGED rec_rows
    /\ pc' = "done"
    /\ UNCHANGED << now, call, ret, program, resume, jobs, idx, matches,
                    all_job_skills, matches_sorted, missing_counts, outputs >>

\* the program is run again on the same collections: a new process, or Streamlit
\* running the script again on the next button press
Rerun ==
    /\ pc \in { "done", "exit" }
    /\ Len(outputs) < MaxRuns
    /\ pc' = "idle"
    /\ idx' = 0
    /\ matches' = << >>
    /\ all_job_skills' = << >>
    /\ matches_sorted' = None
    /\ missing_counts' = None
    /\ rec_rows' = None
    /\ ui' = << >>
    /\ UNCHANGED << now, call, ret, program, resume, jobs, outputs >>

Next == TickIdle \/ Start \/ ScoreJob \/ Rank \/ Gap \/ Courses

Spec == Init /\ [][Next]_vars

-----------------------------------------------------------------------------
(* The same programs run repeatedly on unchanged collections, the clock    *)
(* advancing at any moment                                                 *)

MaxRepeatJobs == 3

InitRepeat ==
    /\ now = Now0
    /\ call = NoCall
    /\ ret = NoRet
    /\ program \in { "stage4", "app" }
    /\ resume \in { Some(r) : r \in Resumes }
    /\ jobs \in JobCollections(MaxRepeatJobs)
    /\ InitLocals

NextRepeat == Tick \/ Start \/ ScoreJob \/ Rank \/ Gap \/ Courses \/ Rerun

SpecRepeat == InitRepeat /\ [][NextRepeat]_vars

-----------------------------------------------------------------------------
(* The helpers called on their own, on arguments drawn from bounded sets   *)

Components == { -1, 0, 1 }

Vectors == UNION { [ 1..n -> Components ] : n \in 0..MaxDim }

KwSkills == { "aws", "java", "python", "sql" }

\* optional skill lists: None, the sorted lists extract_skills builds, and a
\* list that repeats a skill
SkillArgs ==
    { None, Some(<< "python", "sql", "python" >>) }
        \cup { Some(sorted(S)) : S \in SUBSET KwSkills }

WideSkillArgs == { None } \cup { Some(sorted(S)) : S \in SUBSET Vocabulary }

ResumeSkillArgs == { None } \cup { Some(sorted(S)) : S \in SUBSET { "aws", "python", "sql" } }

PostedArgs ==
    { None, Some(0), Some(Now0), Some(Now0 - Days(1)), Some(Now0 - Days(30)),
      Some(Now0 - Days(60)), Some(Now0 - Days(90)), Some(Now0 + Days(1)),
      Some(Now0 + Days(10)) }

Signals == { -One, 0, One \div 3, One \div 2, One }

ScoreArgs == { 0, 12345, 72500, 73500, ScoreOne }

GapSkills == { "aws", "java", "python" }

GapLists == UNION { [ 1..n -> GapSkills ] : n \in 0..MaxGapLen }

\* skills with a COURSE_MAP entry and skills without one
CourseSkills == { "aws", "deep learning", "java", "python" }

CourseLists == UNION { [ 1..n -> CourseSkills ] : n \in 0..MaxCourseLen }

InitFn ==
    /\ now = Now0
    /\ call = NoCall
    /\ ret = NoRet
    /\ program = "app"
    /\ resume = None
    /\ jobs = << >>
    /\ InitLocals

CallCosine ==
    /\ call = NoCall
    /\ \E a \in Vectors, b \in Vectors :
          /\ call' = [ fn |-> "cosine_sim", args |-> << a, b >> ]
          /\ ret' = [ cosine_sim |-> [ stage4 |-> cosine_sim_stage4(a, b),
                                app |-> cosine_sim_app(a, b) ] ]
    /\ UNCHANGED << now, pipeVars >>

CallKeywordOverlap ==
    /\ call = NoCall
    /\ \E rs \in SkillArgs, js \in SkillArgs :
          /\ call' = [ fn |-> "keyword_overlap", args |-> << rs, js >> ]
          /\ ret' = [ keyword_overlap |-> keyword_overlap(rs, js) ]
    /\ UNCHANGED << now, pipeVars >>

CallRecencyWeight ==
    /\ call = NoCall
    /\ \E posted_ts \in PostedArgs :
          /\ call' = [ fn |-> "recency_weight", args |-> << posted_ts >> ]
          /\ ret' = [ recency_weight |-> recency_weight(posted_ts) ]
    /\ UNCHANGED << now, pipeVars >>

CallFinalScore ==
    /\ call = NoCall
    /\ \E sem \in Signals, kw \in Signals, rec \in Signals, pop \in Signals :
          /\ call' = [ fn |-> "final_score", args |-> << sem, kw, rec, pop >> ]
          /\ ret' = [ final_score |-> final_score(sem, kw, rec, pop) ]
    /\ UNCHANGED << now, pipeVars >>

CallExplainMatch ==
    /\ call = NoCall
    /\ \E rs \in ResumeSkillArgs, js \in WideSkillArgs, score \in ScoreArgs :
          /\ call' = [ fn |-> "explain_match", args |-> << rs, js, score >> ]
          /\ ret' = [ explain_match |-> explain_match(rs, js, score) ]
    /\ UNCHANGED << now, pipeVars >>

CallSkillGap ==
    /\ call = NoCall
    /\ \E xs \in GapLists, S \in SUBSET GapSkills :
          /\ call' = [ fn |-> "skill_gap", args |-> << xs, sorted(S) >> ]
          /\ \E g \in SkillGap(xs, sorted(S)) : ret' = [ skill_gap |-> g ]
    /\ UNCHANGED << now, pipeVars >>

\* the loop body of both programs on one resume and one job with a vector
CallScoreJob ==
    /\ call = NoCall
    /\ \E r \in Resumes, k \in { 1, 2, 5, 6 } :
          LET job == JobKind(k, 1)
          IN  /\ call' = [ fn |-> "score_job", args |-> << r, job >> ]
              /\ ret' = [ score_job |-> [ stage4 |-> Stage4Match(r, job,
                                        cosine_sim_stage4(r.vector, Val(job.vector)).val),
                                    app |-> AppMatch(r, job,
                                        cosine_sim_app(r.vector, Val(job.vector)).val) ] ]
    /\ UNCHANGED << now, pipeVars >>

CallCourseRecommendations ==
    /\ call = NoCall
    /\ \E missing_skills \in CourseLists :
          /\ call' = [ fn |-> "course_recommendations", args |-> << missing_skills >> ]
          /\ ret' = [ course_recommendations |-> course_recommendations(missing_skills) ]
    /\ UNCHANGED << now, pipeVars >>

\* the caller takes the result; the next call starts from there
Return ==
    /\ call # NoCall
    /\ call' = NoCall
    /\ ret' = NoRet
    /\ UNCHANGED << now, pipeVars >>

NextFn ==
    \/ (call = NoCall /\ Tick)
    \/ CallCosine
    \/ CallKeywordOverlap
    \/ CallRecencyWeight
    \/ CallFinalScore
    \/ CallExplainMatch
    \/ CallSkillGap
    \/ CallScoreJob
    \/ CallCourseRecommendations
    \/ Return

SpecFn == InitFn /\ [][NextFn]_vars

-----------------------------------------------------------------------------
(* Properties *)

TopN == IF program = "stage4" THEN TOP_N_STAGE4 ELSE TOP_N_APP

\* C1: once a program has ranked its matches, the ranked list is a selection of
\* the scored matches (each ranked entry is a scored match, none taken twice),
\* it has exactly min(topN, number of scored matches) entries, and every entry's
\* score is greater than or equal to the score of the entry after it.
C1_RankedOutput ==
    ~IsNone(matches_sorted) =>
        LET out == Val(matches_sorted)
        IN  /\ Len(out) = Min(TopN, Len(matches))
            /\ \A i \in DOMAIN out : \E j \in DOMAIN matches : out[i] = matches[j]
            /\ \A i \in DOMAIN out : \A j \in DOMAIN out : i # j => out[i] # out[j]
            /\ \A i \in 1..(Len(out) - 1) : ScoreOf(out[i]) >= ScoreOf(out[i + 1])

\* C1 witness: the dashboard has ranked more than 20 matches of unequal scores
C1_Witness ==
    /\ program = "app"
    /\ ~IsNone(matches_sorted)
    /\ Len(matches) > TOP_N_APP
    /\ Len(Val(matches_sorted)) = TOP_N_APP
    /\ ScoreOf(Val(matches_sorted)[1]) > ScoreOf(Val(matches_sorted)[TOP_N_APP])

WithVector(n) == { i \in 1..n : ~NoVector(jobs[i]) }

Finished == pc \in { "done", "exit" }

\* C2: in the scoring pass a job without an embedding produces no match and every
\* job with one produces exactly one; and a pass over an empty collection, or over
\* one in which every job lacks an embedding, ends with an empty match list and
\* without an exception or an error shown.
C2_ScoringPass ==
    /\ Len(matches) = Cardinality(WithVector(idx))
    /\ (Finished /\ ~IsNone(resume) /\ WithVector(Len(jobs)) = {}) =>
          /\ matches = << >>
          /\ \A i \in DOMAIN ui : ui[i][1] # "st.error"
    /\ pc # "exception"

\* C3: final_score is the weighted sum with weights 0.55, 0.25, 0.10, 0.10, which
\* sum to 1.0; raising any one argument with the other three fixed never lowers
\* it; final_score(1,1,1,1) is 1.0 and final_score(0,0,0,0) is 0.0.
C3_FinalScore ==
    call.fn = "final_score" =>
        LET sem == call.args[1]
            kw == call.args[2]
            rec == call.args[3]
            pop == call.args[4]
        IN  /\ ret.final_score = 55 * sem + 25 * kw + 10 * rec + 10 * pop
            /\ W_SEM + W_KW + W_REC + W_POP = 100
            /\ \A x \in Signals :
                  /\ x >= sem => final_score(x, kw, rec, pop) >= ret.final_score
                  /\ x >= kw => final_score(sem, x, rec, pop) >= ret.final_score
                  /\ x >= rec => final_score(sem, kw, x, pop) >= ret.final_score
                  /\ x >= pop => final_score(sem, kw, rec, x) >= ret.final_score
            /\ call.args = << One, One, One, One >> => ret.final_score = ScoreOne
            /\ call.args = << 0, 0, 0, 0 >> => ret.final_score = 0

\* C3 witness: final_score(1,1,1,1) has returned 1.0
C3_Witness ==
    /\ call.fn = "final_score"
    /\ call.args = << One, One, One, One >>
    /\ ret.final_score = ScoreOne

\* C4: cosine_sim(a, b) of two sequences of any lengths equals cosine_sim of both
\* cut to the shorter length, is 0.0 when either cut sequence has zero norm, never
\* raises, and match_stage4's and the dashboard's implementation agree.
C4_Cosine ==
    call.fn = "cosine_sim" =>
        LET a == call.args[1]
            b == call.args[2]
            n == Min(Len(a), Len(b))
            ta == SubSeq(a, 1, n)
            tb == SubSeq(b, 1, n)
        IN  /\ ret.cosine_sim.app.ok /\ ret.cosine_sim.stage4.ok
            /\ ret.cosine_sim.app = cosine_sim_app(ta, tb)
            /\ ret.cosine_sim.stage4 = cosine_sim_stage4(ta, tb)
            /\ (SumSq(ta) = 0 \/ SumSq(tb) = 0) => (ret.cosine_sim.app.val = 0 /\ ret.cosine_sim.stage4.val = 0)
            /\ ret.cosine_sim.app = ret.cosine_sim.stage4

\* C4 witness: a call on sequences of different lengths returned a nonzero value
C4_Witness ==
    /\ call.fn = "cosine_sim"
    /\ Len(call.args[1]) # Len(call.args[2])
    /\ ret.cosine_sim.app.ok
    /\ ret.cosine_sim.app.val # 0

\* C5: keyword_overlap is |R n J| / |R u J| when both skill sets are non-empty and
\* 0.0 when either is empty or absent; it is symmetric, within [0, 1], 1.0 for
\* equal non-empty sets, and 2/3 for {python, sql} against {python, sql, aws}.
C5_KeywordOverlap ==
    call.fn = "keyword_overlap" =>
        LET R == SetOf(call.args[1])
            J == SetOf(call.args[2])
        IN  /\ (R = {} \/ J = {}) => ret.keyword_overlap = 0
            /\ (R # {} /\ J # {}) =>
                  /\ ret.keyword_overlap * Cardinality(R \cup J) <= Cardinality(R \cap J) * One
                  /\ (ret.keyword_overlap + 1) * Cardinality(R \cup J) > Cardinality(R \cap J) * One
            /\ ret.keyword_overlap = keyword_overlap(call.args[2], call.args[1])
            /\ 0 <= ret.keyword_overlap /\ ret.keyword_overlap <= One
            /\ (R = J /\ R # {}) => ret.keyword_overlap = One
            /\ (R = { "python", "sql" } /\ J = { "python", "sql", "aws" }) =>
                  ret.keyword_overlap = (2 * One) \div 3

\* C5 witness: {python, sql} against {python, sql, aws} returned 2/3
C5_Witness ==
    /\ call.fn = "keyword_overlap"
    /\ SetOf(call.args[1]) = { "python", "sql" }
    /\ SetOf(call.args[2]) = { "python", "sql", "aws" }
    /\ ret.keyword_overlap = (2 * One) \div 3

\* C6: recency_weight returns the neutral 0.5 exactly when posted_at is absent;
\* for every present timestamp it returns exp(-max(0, elapsed days)/30), so a
\* timestamp not before now gives 1.0, the result is in (0, 1], and an older
\* posting never gets a larger weight than a newer one.
C6_Recency ==
    call.fn = "recency_weight" =>
        LET p == call.args[1]
        IN  /\ (ret.recency_weight = NEUTRAL_RECENCY) <=> IsNone(p)
            /\ ~IsNone(p) =>
                  /\ ret.recency_weight = ExpNeg(Max(0, Quot(now - Val(p), SECONDS_PER_DAY)))
                  /\ Val(p) >= now => ret.recency_weight = One
                  /\ \A q \in PostedArgs :
                        (~IsNone(q) /\ Val(q) <= Val(p)) => recency_weight(q) <= ret.recency_weight
            /\ 0 < ret.recency_weight /\ ret.recency_weight <= One

\* C7: two invocations on the same resume and the same job sequence show the
\* identical ranked list: the same entries with the same scores in the same order.
C7_SameOutput ==
    \A i \in DOMAIN outputs : \A j \in DOMAIN outputs : outputs[i] = outputs[j]

FirstIndex(xs, k) == CHOOSE i \in DOMAIN xs : xs[i] = k /\ \A j \in 1..(i - 1) : xs[j] # k

RECURSIVE CorpusCount(_, _)
CorpusCount(n, s) ==
    IF n = 0 THEN 0 ELSE CorpusCount(n - 1, s) + CountOf(jobs[n].required_skills, s)

\* C9: when the dashboard has finished on a resume, the skill-gap and the course
\* sections have run, on a skill list that holds the required skills of every job
\* of the collection, once per job, whether or not the job was scored.
C9_FullCorpus ==
    (program = "app" /\ pc = "done" /\ ~IsNone(resume)) =>
        /\ \E i \in DOMAIN ui : ui[i][1] = "gap"
        /\ \E i \in DOMAIN ui : ui[i][1] = "courses"
        /\ \A s \in Vocabulary : CountOf(all_job_skills, s) = CorpusCount(Len(jobs), s)

Ascending(sk) == \A i \in 1..(Len(sk) - 1) : AlphaRank(sk[i]) < AlphaRank(sk[i + 1])

\* C10: explain_match reports the score (to two decimals), the common skills,
\* exactly the resume skills that are job skills, in ascending alphabetical order,
\* and the first min(5, number of missing skills) of the alphabetically sorted job
\* skills that are not resume skills, never a resume skill; and the score of the
\* dashboard's match, which carries the explanation, is the score match_stage4
\* computes without one.
C10_Explain ==
    /\ call.fn = "explain_match" =>
          LET R == SetOf(call.args[1])
              J == SetOf(call.args[2])
              score == call.args[3]
          IN  /\ Abs(ret.explain_match.score * (ScoreOne \div 100) - score) * 2 <= ScoreOne \div 100
              /\ ToSet(ret.explain_match.common) = R \cap J
              /\ Ascending(ret.explain_match.common)
              /\ Len(ret.explain_match.learn) = Min(5, Cardinality(J \ R))
              /\ Ascending(ret.explain_match.learn)
              /\ ToSet(ret.explain_match.learn) \subseteq J \ R
              /\ \A s \in (J \ R) \ ToSet(ret.explain_match.learn) : \A t \in ToSet(ret.explain_match.learn) :
                    AlphaRank(t) < AlphaRank(s)
              /\ ToSet(ret.explain_match.learn) \cap R = {}
    /\ call.fn = "score_job" =>
          /\ ret.score_job.app.Score = RoundTo(ret.score_job.stage4.score, ScoreOne \div One)
          /\ ret.score_job.app.SemanticSim = ret.score_job.stage4.semantic_similarity
          /\ ret.score_job.app.KeywordOverlap = ret.score_job.stage4.keyword_overlap

\* C10 witness: an explanation with a common skill and more than five missing ones
C10_Witness ==
    /\ call.fn = "explain_match"
    /\ SetOf(call.args[1]) \cap SetOf(call.args[2]) # {}
    /\ Cardinality(SetOf(call.args[2]) \ SetOf(call.args[1])) > 5
    /\ Len(ret.explain_match.learn) = 5

\* the courses COURSE_MAP lists for a skill, none for a skill without an entry
Listed(s) == IF s \in DOMAIN COURSE_MAP THEN COURSE_MAP[s] ELSE << >>

\* the number of pairs due to the first n skills of xs
RECURSIVE PairsBefore(_, _)
PairsBefore(xs, n) == IF n = 0 THEN 0 ELSE PairsBefore(xs, n - 1) + Len(Listed(xs[n]))

\* C11: course_recommendations returns, for each input skill in input order and
\* for each course COURSE_MAP lists for it in map order, exactly one pair of that
\* skill and that course, and nothing else: a skill without an entry gives no
\* pair (and no error), and no pair names a skill that is not in the input.
C11_CourseRecommendations ==
    call.fn = "course_recommendations" =>
        LET xs == call.args[1]
            rows == ret.course_recommendations
        IN  /\ Len(rows) = PairsBefore(xs, Len(xs))
            /\ \A i \in DOMAIN xs : \A c \in DOMAIN Listed(xs[i]) :
                  rows[PairsBefore(xs, i - 1) + c] =
                      [ Skill |-> xs[i], Course |-> Listed(xs[i])[c] ]
            /\ \A j \in DOMAIN rows :
                  /\ rows[j].Skill \in ToSet(xs)
                  /\ rows[j].Skill \in DOMAIN COURSE_MAP

\* C11 witness: a call on two different skills with courses and one without,
\* which returned the two pairs in input order
C11_Witness ==
    /\ call.fn = "course_recommendations"
    /\ call.args[1] = << "python", "java", "aws" >>
    /\ Len(ret.course_recommendations) = 2
    /\ ret.course_recommendations[1].Skill = "python"
    /\ ret.course_recommendations[2].Skill = "aws"

=============================================================================
